---------------------------- MODULE Spec2Model ----------------------------
(***************************************************************************)
(* VoiceLock (modules/voicelock.py): a voice-biometric gate placed in      *)
(* front of a protected action.                                            *)
(*                                                                         *)
(* State: the configuration read at import, the two backing stores (the    *)
(* JSON document voicelock_db.json and the SQLite database voicelock.db),  *)
(* the wall clock, the observable record of the last call, and the         *)
(* processes that are inside a call when several run side by side.         *)
(* Operations: enroll, verify, the gate wrapper, list_users, delete_user,  *)
(* plus the environment (time passing, the store files being changed from  *)
(* outside the module).                                                    *)
(*                                                                         *)
(* Python values are modelled by what the interpreter does with them: an   *)
(* exception is an outcome carrying the exception's name, a name that the  *)
(* module never binds raises NameError when it is evaluated.               *)
(***************************************************************************)
EXTENDS Integers, Sequences, FiniteSets, TLC

VARIABLES cfg, disk, clock, hist, last, procs

vars == <<cfg, disk, clock, hist, last, procs>>

-----------------------------------------------------------------------------
(* Bounds of the model                                                     *)

\* number of times the clock advances
MaxTicks == 2
\* number of earlier matching attempts remembered for one identity
MaxHist == 2
\* the wall clock (unix seconds) when the model starts
Epoch0 == 1000

-----------------------------------------------------------------------------
(* Module globals and configuration (voicelock.py lines 4-33)              *)

\* the names the module would bind if its import block held "import time"
ModuleGlobalsWithTime ==
    {"sd", "np", "json", "os", "yaml", "sqlite3", "random", "datetime",
     "mfcc", "GaussianMixture", "CONFIG", "DB_JSON", "DB_SQLITE", "THRESH",
     "DUR", "SR", "LIVENESS", "PHRASE_MODE", "DEFAULT_USER", "ANTI_REPLAY",
     "REPLAY_AGE", "time"}

\* the names bound at module level by the import block and the definitions
ModuleGlobals ==
    {"sd", "np", "json", "os", "yaml", "sqlite3", "random", "datetime",
     "mfcc", "GaussianMixture", "CONFIG", "DB_JSON", "DB_SQLITE", "THRESH",
     "DUR", "SR", "LIVENESS", "PHRASE_MODE", "DEFAULT_USER", "ANTI_REPLAY",
     "REPLAY_AGE"}

\* evaluating a global name the module does not bind raises NameError
NameDefined(name) == name \in ModuleGlobals

\* THRESH = 0.8 as the fraction ThreshNum / ThreshDen
ThreshNum == 8
ThreshDen == 10
\* REPLAY_AGE, seconds
REPLAY_AGE == 60
\* the value enroll writes for "never used"
NeverUsed == 0

DEFAULT_USER == "lyle"
Users == {"lyle", "alice"}

\* the configuration when config.yaml sets nothing
DefaultConfig ==
    [liveness |-> TRUE, phraseMode |-> "random", antiReplay |-> TRUE,
     storage |-> "json"]

\* the configurations config.yaml selects here: the defaults, the
\* optional stages switched off, and the other phrase mode and backend
Configs ==
    {DefaultConfig,
     [DefaultConfig EXCEPT !.liveness = FALSE, !.antiReplay = FALSE],
     [DefaultConfig EXCEPT !.phraseMode = "fixed-phrase-x",
                           !.storage = "sqlite"]}

-----------------------------------------------------------------------------
(* Waveforms and embeddings                                                *)

\* what _record() can return: a waveform, or None when the device fails
NoWav == "None"
Waveforms == {"wA", "wB", "wC", "wBad"}
\* the waveforms captured at an enrollment
EnrollWaveforms == {"wA", "wB", "wBad"}

\* the value get_embedding returns on an internal failure
NoEmbed == <<>>

\* get_embedding: the voiceprint of a waveform, None when extraction fails
get_embedding(wav) ==
    CASE wav = "wA" -> <<4, 3>>
      [] wav = "wB" -> <<1, 0>>
      [] wav = "wC" -> <<0, 1>>
      [] OTHER -> NoEmbed

\* a voiceprint written by another embedding strategy (other dimensionality)
LegacyEmbed == <<1, 0, 0>>
\* a stored voiceprint whose components are all zero
ZeroEmbed == <<0, 0>>
\* the voiceprints a document written outside enroll can hold
ForeignEmbeds == {LegacyEmbed, ZeroEmbed}

RECURSIVE DotFrom(_, _, _)
DotFrom(a, b, i) ==
    IF i > Len(a) THEN 0 ELSE a[i] * b[i] + DotFrom(a, b, i + 1)

\* np.dot of two 1-D arrays of equal length
Dot(a, b) == DotFrom(a, b, 1)

\* the square of np.linalg.norm
NormSq(a) == Dot(a, a)

\* How sim = dot / (norm * norm) compares with THRESH:
\*   "dimdiff" np.dot raises ValueError (shapes not aligned)
\*   "nan"     a zero norm: 0/0 is nan, every comparison with it is False
\*   "below" / "tie" / "above" otherwise
SimClass(saved, embed) ==
    IF Len(saved) # Len(embed) THEN "dimdiff"
    ELSE LET d == Dot(saved, embed)
             n == NormSq(saved) * NormSq(embed)
             lhs == d * d * ThreshDen * ThreshDen
             rhs == ThreshNum * ThreshNum * n
         IN  IF n = 0 THEN "nan"
             ELSE IF d < 0 \/ lhs < rhs THEN "below"
             ELSE IF lhs = rhs THEN "tie"
             ELSE "above"

-----------------------------------------------------------------------------
(* The backing stores and the in-memory dict loaded from them              *)

\* a dict with no keys
EmptyDb == [u \in {} |-> TRUE]

\* the entry enroll builds: {"embed": ..., "enrolled": ..., "last_used": 0}
DictEntry(embed, enrolled, last_used) ==
    [t |-> "dict", embed |-> embed, enrolled |-> enrolled,
     last_used |-> last_used]

\* the entry _load_sqlite builds: json.loads(embedding), a bare list
ListEntry(embedding) ==
    [t |-> "list", embed |-> embedding, enrolled |-> 0, last_used |-> 0]

\* the result of a call: the exception that left it ("none" if it returned),
\* and the dict or the disk it produced
Returned(db) == [exc |-> "none", db |-> db]
Raised(name) == [exc |-> name, db |-> EmptyDb]

\* _load_json: {} when the file does not exist, {} when it cannot be read
\* or parsed (the bare except), else the parsed document
load_json(d) ==
    IF d.json.kind = "missing" THEN Returned(EmptyDb)
    ELSE IF d.json.kind = "malformed" THEN Returned(EmptyDb)
    ELSE Returned(d.json.db)

\* _load_sqlite: SELECT id, embedding FROM users; a database without the
\* table raises sqlite3.OperationalError, nothing here catches it
load_sqlite(d) ==
    IF d.sqlite.kind = "notable" THEN Raised("OperationalError")
    ELSE Returned([u \in DOMAIN d.sqlite.rows |->
                      ListEntry(d.sqlite.rows[u].embedding)])

\* db = _load_json() if CONFIG.get("storage", "json") == "json"
\*      else _load_sqlite()
load_db(c, d) == IF c.storage = "json" THEN load_json(d) ELSE load_sqlite(d)

\* _save_json: the document is rewritten wholesale with the dict
save_json(d, db) ==
    [exc |-> "none",
     disk |-> [d EXCEPT !.json = [kind |-> "doc", db |-> db]]]

\* _save_db, SQLite branch: DELETE FROM users, one INSERT per entry reading
\* data["embed"] and data.get("enrolled", ""), then commit and close.
\* Indexing a list entry with "embed" raises TypeError before the commit:
\* nothing is written, and the connection, never closed, keeps the write
\* lock of its open transaction until it is collected. While the lock is
\* held the DELETE of another connection raises OperationalError
\* (database is locked).
save_sqlite(d, db) ==
    IF d.sqlite.kind = "notable" \/ d.sqlite.locked
    THEN [exc |-> "OperationalError", disk |-> d]
    ELSE IF \E u \in DOMAIN db : db[u].t # "dict"
    THEN [exc |-> "TypeError", disk |-> [d EXCEPT !.sqlite.locked = TRUE]]
    ELSE [exc |-> "none",
          disk |-> [d EXCEPT !.sqlite.rows =
                      [u \in DOMAIN db |->
                          [embedding |-> db[u].embed,
                           enrolled |-> db[u].enrolled]]]]

\* _save_db
save_db(c, d, db) ==
    IF c.storage = "json" THEN save_json(d, db) ELSE save_sqlite(d, db)

\* db[user_id] = entry
DictSet(db, user_id, entry) ==
    [u \in DOMAIN db \cup {user_id} |->
        IF u = user_id THEN entry ELSE db[u]]

\* del db[user_id]
DictDel(db, user_id) == [u \in DOMAIN db \ {user_id} |-> db[u]]

\* whether the configured backing store cannot be read as a store
StoreUnreadable(c, d) ==
    IF c.storage = "json" THEN d.json.kind = "malformed"
    ELSE d.sqlite.kind = "notable"

\* the identities recorded in the configured backing store
Enrolled(c, d) ==
    IF c.storage = "json" THEN DOMAIN d.json.db ELSE DOMAIN d.sqlite.rows

-----------------------------------------------------------------------------
(* Liveness phrase                                                         *)

Words == <<"alpha", "bravo", "charlie", "delta", "echo">>

\* _get_phrase: the phrases it can return, each a sequence of words;
\* random.choices(words, k=3) draws with replacement
get_phrase(c) ==
    IF c.phraseMode = "random"
    THEN {<<Words[i], Words[j], Words[k]>> : i, j, k \in DOMAIN Words}
    ELSE {<<c.phraseMode>>}

\* what the human can answer to a phrase: the phrase, the phrase in another
\* letter case, or something else
Responses(phrase) ==
    {[words |-> phrase, upper |-> FALSE],
     [words |-> phrase, upper |-> TRUE],
     [words |-> <<"wrong">>, upper |-> FALSE]}

\* validate(expected, response) of the specification: case-insensitive,
\* whitespace-normalized exact match. The module has no such function.
ResponseMatches(phrase, resp) ==
    [resp EXCEPT !.upper = FALSE] = [words |-> phrase, upper |-> FALSE]

\* The exchanges "phrase = _get_phrase() if LIVENESS else None", print,
\* input() can produce: whether a phrase was presented, and whether the
\* response typed matched it
Exchanges(c) ==
    IF c.liveness
    THEN UNION {{[challenged |-> TRUE, respOK |-> ResponseMatches(p, r)] :
                    r \in Responses(p)} : p \in get_phrase(c)}
    ELSE {[challenged |-> FALSE, respOK |-> FALSE]}

-----------------------------------------------------------------------------
(* Anti-replay check and verify                                            *)

\* _check_replay(user_id, timestamp): its return value and the disk it
\* leaves. Every exception inside the try is swallowed and answered True.
check_replay(c, d, user_id, clk) ==
    IF ~c.antiReplay THEN [ret |-> TRUE, disk |-> d]
    ELSE LET ld == load_db(c, d)
         IN  IF ld.exc # "none" THEN [ret |-> TRUE, disk |-> d]
             ELSE IF user_id \notin DOMAIN ld.db
             THEN [ret |-> TRUE, disk |-> d]
             \* db[user_id].get on a list entry: AttributeError
             ELSE IF ld.db[user_id].t # "dict"
             THEN [ret |-> TRUE, disk |-> d]
             \* now = time.time(): NameError when time is not bound
             ELSE IF ~NameDefined("time") THEN [ret |-> TRUE, disk |-> d]
             ELSE IF clk - ld.db[user_id].last_used < REPLAY_AGE
             THEN [ret |-> FALSE, disk |-> d]
             ELSE LET e == ld.db[user_id]
                      sv == save_db(c, d,
                              DictSet(ld.db, user_id,
                                  DictEntry(e.embed, e.enrolled, clk)))
                  IN  [ret |-> TRUE, disk |-> sv.disk]

\* what verify reports of a run that stopped before the threshold decision
VerifyStop(ret, exc, embedded, storeRead, known, simCls, d) ==
    [ret |-> ret, exc |-> exc, embedded |-> embedded,
     storeRead |-> storeRead, known |-> known, simCls |-> simCls,
     matched |-> FALSE, guard |-> "NotConsulted", disk |-> d]

\* the threshold test of verify: "if sim < THRESH: return False"
Rejected(simCls) == simCls = "below"

\* a verify that writes the time of the attempt into the identity's record
\* before it decides, and then denies
verifyRecordFirst(c, d, wav, user_id, clk) ==
    LET ld == load_db(c, d)
    IN  IF \/ get_embedding(wav) = NoEmbed
           \/ ld.exc # "none"
           \/ user_id \notin DOMAIN ld.db
           \/ ld.db[user_id].t # "dict"
        THEN VerifyStop("False", "none", FALSE, FALSE, FALSE, "na", d)
        ELSE LET e == ld.db[user_id]
                 sv == save_db(c, d,
                         DictSet(ld.db, user_id,
                             DictEntry(e.embed, e.enrolled, clk)))
             IN  VerifyStop("False", "none", TRUE, TRUE, TRUE, "below",
                            sv.disk)

\* verify(wav, user_id): ret is "True", "False" or "raise" (with exc)
verify(c, d, wav, user_id, clk) ==
    LET embed == get_embedding(wav)
        ld == load_db(c, d)
    IN  IF embed = NoEmbed
        THEN VerifyStop("False", "none", FALSE, FALSE, FALSE, "na", d)
        ELSE IF ld.exc # "none"
        THEN VerifyStop("raise", ld.exc, TRUE, TRUE, FALSE, "na", d)
        ELSE IF user_id \notin DOMAIN ld.db
        THEN VerifyStop("False", "none", TRUE, TRUE, FALSE, "na", d)
        \* db[user_id]["embed"] on a list entry: TypeError
        ELSE IF ld.db[user_id].t # "dict"
        THEN VerifyStop("raise", "TypeError", TRUE, TRUE, TRUE, "na", d)
        ELSE LET simCls == SimClass(ld.db[user_id].embed, embed)
             IN  IF simCls = "dimdiff"
                 THEN VerifyStop("raise", "ValueError", TRUE, TRUE, TRUE,
                                 simCls, d)
                 ELSE IF Rejected(simCls)
                 THEN VerifyStop("False", "none", TRUE, TRUE, TRUE,
                                 simCls, d)
                 \* the argument time.time() is evaluated before the call
                 ELSE IF ~NameDefined("time")
                 THEN [VerifyStop("raise", "NameError", TRUE, TRUE, TRUE,
                                  simCls, d) EXCEPT !.matched = TRUE]
                 ELSE LET cr == check_replay(c, d, user_id, clk)
                      IN  [ret |-> IF cr.ret THEN "True" ELSE "False",
                           exc |-> "none", embedded |-> TRUE,
                           storeRead |-> TRUE, known |-> TRUE,
                           simCls |-> simCls, matched |-> TRUE,
                           guard |-> IF cr.ret THEN "Allowed" ELSE "Blocked",
                           disk |-> cr.disk]

-----------------------------------------------------------------------------
(* The observable record of a call                                         *)

\* the value the protected function returns
ActionResult == "result"

\* op          the function called ("none" before the first call)
\* user, time  the identity it was called for and the clock at the call
\* challenged  a liveness phrase was presented
\* respOK      the human's response matched the phrase
\* captureCalled / captured   _record ran / returned a waveform
\* embedCalled / embedded     get_embedding ran / returned a voiceprint
\* storeRead, known           the store was loaded / held the identity
\* simCls, matched            the similarity class / the threshold passed
\* guard       what _check_replay answered, "NotConsulted" if it never ran
\* actionCalls how many times the protected function was invoked
\* outcome     "Granted" or "Denied" for a gate attempt
\* ret, exc    the value returned, the exception that left the call
\* caught      the exception the call caught and swallowed
\* unreadable  the configured store could not be read when the call began
\* listed      the identities list_users returned
\* wrote       the call rewrote the backing store
\* changed     the identities whose stored record the call created,
\*             replaced or removed
\* prior, priorExact  the times of the identity's earlier matching attempts
\*             since it was enrolled, and whether that list is known whole
NoCall ==
    [op |-> "none", user |-> DEFAULT_USER, time |-> 0,
     challenged |-> FALSE, respOK |-> FALSE,
     captureCalled |-> FALSE, captured |-> FALSE,
     embedCalled |-> FALSE, embedded |-> FALSE,
     storeRead |-> FALSE, known |-> FALSE,
     simCls |-> "na", matched |-> FALSE, guard |-> "NotConsulted",
     actionCalls |-> 0, outcome |-> "na", ret |-> "None",
     exc |-> "none", caught |-> "none", unreadable |-> FALSE,
     listed |-> {}, wrote |-> FALSE, changed |-> {},
     prior |-> <<>>, priorExact |-> TRUE]

\* the fields verify fills in
WithVerify(r, v) ==
    [r EXCEPT !.embedCalled = TRUE, !.embedded = v.embedded,
              !.storeRead = v.storeRead, !.known = v.known,
              !.simCls = v.simCls, !.matched = v.matched,
              !.guard = v.guard]

-----------------------------------------------------------------------------
(* gate                                                                    *)

\* user_id = user_id or DEFAULT_USER
GateUser(arg) == IF arg = "None" THEN DEFAULT_USER ELSE arg

\* a fail-open wrapper: everything but a returned False goes on to func
AdmitsFailOpen(v) == v.ret # "False"

\* whether the wrapper goes on to func: "if verify(wav, user_id):"
Admits(v) == v.exc = "none" /\ v.ret = "True"

\* a narrower handler: "except ValueError as e"
CatchesValueErrorOnly(exc) == exc = "ValueError"

\* whether "except Exception as e" catches an exception raised in the try
Catches(exc) ==
    exc \in {"NameError", "ValueError", "TypeError", "OperationalError"}

\* wrapper(*args, **kwargs) of gate(user_id)(func): the record of the call
\* and the disk it leaves. The response typed at input() is discarded; an
\* Exception raised inside the try is printed and answered None.
wrapper(c, d, user_id, live, wav, clk) ==
    LET r0 == [NoCall EXCEPT !.op = "gate", !.user = user_id, !.time = clk,
                             !.challenged = live.challenged,
                             !.respOK = live.respOK,
                             !.unreadable = StoreUnreadable(c, d),
                             !.captureCalled = TRUE,
                             !.captured = (wav # NoWav),
                             !.outcome = "Denied"]
        v == verify(c, d, wav, user_id, clk)
        r1 == WithVerify(r0, v)
    IN  IF wav = NoWav THEN [rec |-> r0, disk |-> d]
        ELSE IF Admits(v)
        THEN [rec |-> [r1 EXCEPT !.actionCalls = 1, !.outcome = "Granted",
                                 !.ret = ActionResult],
              disk |-> v.disk]
        ELSE IF v.exc = "none" THEN [rec |-> r1, disk |-> v.disk]
        ELSE IF Catches(v.exc)
        THEN [rec |-> [r1 EXCEPT !.caught = v.exc], disk |-> v.disk]
        ELSE [rec |-> [r1 EXCEPT !.outcome = "na", !.exc = v.exc],
              disk |-> v.disk]

-----------------------------------------------------------------------------
(* enroll, list_users, delete_user                                         *)

\* enroll(user_id): nothing catches what the load or the save raises
enroll(c, d, user_id, wav, clk) ==
    LET r0 == [NoCall EXCEPT !.op = "enroll", !.user = user_id,
                             !.time = clk,
                             !.unreadable = StoreUnreadable(c, d),
                             !.captureCalled = TRUE,
                             !.captured = (wav # NoWav)]
        embed == get_embedding(wav)
        r1 == [r0 EXCEPT !.embedCalled = TRUE,
                         !.embedded = (embed # NoEmbed)]
        ld == load_db(c, d)
        r2 == [r1 EXCEPT !.storeRead = TRUE]
        sv == save_db(c, d,
                  DictSet(ld.db, user_id, DictEntry(embed, clk, NeverUsed)))
    IN  IF wav = NoWav THEN [rec |-> r0, disk |-> d]
        ELSE IF embed = NoEmbed THEN [rec |-> r1, disk |-> d]
        ELSE IF ld.exc # "none"
        THEN [rec |-> [r2 EXCEPT !.exc = ld.exc], disk |-> d]
        ELSE IF sv.exc # "none"
        THEN [rec |-> [r2 EXCEPT !.known = user_id \in DOMAIN ld.db,
                                 !.exc = sv.exc],
              disk |-> sv.disk]
        ELSE [rec |-> [r2 EXCEPT !.known = user_id \in DOMAIN ld.db,
                                 !.wrote = TRUE],
              disk |-> sv.disk]

\* list_users(): the keys of the loaded dict, [] when the load raises
list_users(c, d) ==
    LET r0 == [NoCall EXCEPT !.op = "list", !.storeRead = TRUE,
                             !.unreadable = StoreUnreadable(c, d),
                             !.ret = "list"]
        ld == load_db(c, d)
    IN  IF ld.exc # "none"
        THEN [rec |-> [r0 EXCEPT !.caught = ld.exc], disk |-> d]
        ELSE [rec |-> [r0 EXCEPT !.listed = DOMAIN ld.db], disk |-> d]

\* delete_user(user_id): returns None on every path
delete_user(c, d, user_id) ==
    LET r0 == [NoCall EXCEPT !.op = "delete", !.user = user_id,
                             !.storeRead = TRUE,
                             !.unreadable = StoreUnreadable(c, d)]
        ld == load_db(c, d)
        sv == save_db(c, d, DictDel(ld.db, user_id))
    IN  IF ld.exc # "none"
        THEN [rec |-> [r0 EXCEPT !.caught = ld.exc], disk |-> d]
        ELSE IF user_id \notin DOMAIN ld.db
        THEN [rec |-> r0, disk |-> d]
        ELSE IF sv.exc # "none"
        THEN [rec |-> [r0 EXCEPT !.known = TRUE, !.caught = sv.exc],
              disk |-> sv.disk]
        ELSE [rec |-> [r0 EXCEPT !.known = TRUE, !.wrote = TRUE],
              disk |-> sv.disk]

-----------------------------------------------------------------------------
(* History of matching attempts (observation only, the code keeps none)    *)

\* hist follows the default identity: times are its matching attempts
\* since it was enrolled, exact says that none is missing from the list
NoHist == [user |-> DEFAULT_USER, times |-> <<>>, exact |-> FALSE]

\* the history when user_id has just been enrolled
FreshHist(user_id) ==
    IF user_id = DEFAULT_USER
    THEN [user |-> user_id, times |-> <<>>, exact |-> TRUE]
    ELSE NoHist

\* a matching attempt at clk is added to the identity's list
Noted(h, user_id, clk) ==
    IF h.user = user_id /\ h.exact /\ Len(h.times) < MaxHist
    THEN [h EXCEPT !.times = Append(@, clk)]
    ELSE NoHist

\* the history after a verify for user_id: an attempt above the threshold
\* is noted; one that passed the threshold test without being above it
\* leaves the list unknown
AfterAttempt(h, user_id, clk, matched, simCls) ==
    IF ~matched THEN h
    ELSE IF simCls = "above" THEN Noted(h, user_id, clk)
    ELSE IF h.user = user_id THEN NoHist
    ELSE h

\* the history after enroll or delete_user rewrote user_id's record
AfterWrite(h, user_id, enrolled) ==
    IF enrolled THEN FreshHist(user_id)
    ELSE IF h.user = user_id THEN NoHist
    ELSE h

\* the stored record of each identity in the configured backing store
Records(c, d) == IF c.storage = "json" THEN d.json.db ELSE d.sqlite.rows

\* the identities whose stored record differs between two disks
Changed(c, d1, d2) ==
    {u \in Users :
        \/ (u \in Enrolled(c, d1)) # (u \in Enrolled(c, d2))
        \/ /\ u \in Enrolled(c, d1)
           /\ u \in Enrolled(c, d2)
           /\ Records(c, d1)[u] # Records(c, d2)[u]}

\* the record of a call, with the records it changed
WithChanged(r, c, d1, d2) == [r EXCEPT !.changed = Changed(c, d1, d2)]

\* the record of a call, with the history the identity had before it
WithPrior(r, h) ==
    IF h.user = r.user /\ h.exact
    THEN [r EXCEPT !.prior = h.times, !.priorExact = TRUE]
    ELSE [r EXCEPT !.prior = <<>>, !.priorExact = FALSE]

-----------------------------------------------------------------------------
(* Processes inside a call                                                 *)

\* the processes that can be inside a call of the module at the same time
\* (manage_users.py and a gated program, each its own interpreter)
Procs == {"p1", "p2"}

\* pc      where the process stands: "idle" before a call, "done" after it
\* op      the function it called
\* user    the identity it called it for
\* db      the dict it loaded and holds in memory
\* time    the clock when it read the time
\* matched, guard, outcome, exc   as in the record of a call
IdleProc ==
    [pc |-> "idle", op |-> "none", user |-> DEFAULT_USER, db |-> EmptyDb,
     time |-> 0, matched |-> FALSE, guard |-> "NotConsulted",
     outcome |-> "na", exc |-> "none"]

-----------------------------------------------------------------------------
(* The state machine                                                       *)

TickStep == REPLAY_AGE \div 2

Init ==
    /\ cfg \in Configs
    /\ disk = [json |-> [kind |-> "missing", db |-> EmptyDb],
               sqlite |-> [kind |-> "notable", rows |-> EmptyDb,
                           locked |-> FALSE]]
    /\ clock = Epoch0
    /\ hist = NoHist
    /\ last = NoCall
    /\ procs = [base |-> disk, run |-> [p \in Procs |-> IdleProc]]

\* enroll(user_id) is called
Enroll ==
    \E u \in Users, wav \in EnrollWaveforms \cup {NoWav} :
        LET res == enroll(cfg, disk, u, wav, clock)
        IN  /\ disk' = res.disk
            /\ last' = WithChanged(res.rec, cfg, disk, res.disk)
            /\ hist' = IF res.rec.wrote THEN AfterWrite(hist, u, TRUE)
                       ELSE hist
            /\ UNCHANGED <<cfg, clock, procs>>

\* verify(wav, user_id) is called directly
VerifyCall ==
    \E u \in Users, wav \in Waveforms :
        LET v == verify(cfg, disk, wav, u, clock)
            r == WithVerify([NoCall EXCEPT !.op = "verify", !.user = u,
                                !.time = clock,
                                !.unreadable = StoreUnreadable(cfg, disk),
                                !.ret = IF v.ret = "raise" THEN "None"
                                        ELSE v.ret,
                                !.exc = v.exc], v)
        IN  /\ disk' = v.disk
            /\ last' = WithChanged(WithPrior(r, hist), cfg, disk, v.disk)
            /\ hist' = AfterAttempt(hist, u, clock, v.matched, v.simCls)
            /\ UNCHANGED <<cfg, clock, procs>>

\* a function decorated with gate(arg) is called
GateAttempt ==
    \E u \in {GateUser(arg) : arg \in Users \cup {"None"}},
       wav \in Waveforms \cup {NoWav}, live \in Exchanges(cfg) :
        LET res == wrapper(cfg, disk, u, live, wav, clock)
        IN  /\ disk' = res.disk
            /\ last' = WithChanged(WithPrior(res.rec, hist), cfg, disk,
                                   res.disk)
            /\ hist' = AfterAttempt(hist, u, clock, res.rec.matched,
                                    res.rec.simCls)
            /\ UNCHANGED <<cfg, clock, procs>>

\* list_users() is called
ListUsers ==
    LET res == list_users(cfg, disk)
    IN  /\ disk' = res.disk
        /\ last' = WithChanged(res.rec, cfg, disk, res.disk)
        /\ UNCHANGED <<cfg, clock, hist, procs>>

\* delete_user(user_id) is called
DeleteUser ==
    \E u \in Users :
        LET res == delete_user(cfg, disk, u)
        IN  /\ disk' = res.disk
            /\ last' = WithChanged(res.rec, cfg, disk, res.disk)
            /\ hist' = IF res.rec.wrote THEN AfterWrite(hist, u, FALSE)
                       ELSE hist
            /\ UNCHANGED <<cfg, clock, procs>>

\* time passes
Tick ==
    /\ clock < Epoch0 + MaxTicks * TickStep
    /\ clock' = clock + TickStep
    /\ last' = NoCall
    /\ UNCHANGED <<cfg, disk, hist, procs>>

\* voicelock_db.json is damaged or made unreadable from outside
CorruptJson ==
    /\ cfg.storage = "json"
    /\ disk.json.kind # "malformed"
    /\ disk' = [disk EXCEPT !.json = [kind |-> "malformed", db |-> EmptyDb]]
    /\ hist' = NoHist
    /\ last' = NoCall
    /\ UNCHANGED <<cfg, clock, procs>>

\* voicelock_db.json is replaced by a document written outside enroll:
\* under another embedding strategy, or with a vector of zeros
InstallLegacy ==
    /\ cfg.storage = "json"
    /\ \E e \in ForeignEmbeds :
           disk' = [disk EXCEPT !.json =
                      [kind |-> "doc",
                       db |-> DictSet(EmptyDb, DEFAULT_USER,
                                DictEntry(e, Epoch0, NeverUsed))]]
    /\ disk' # disk
    /\ hist' = NoHist
    /\ last' = NoCall
    /\ UNCHANGED <<cfg, clock, procs>>

\* the users table is created in voicelock.db from outside (the module
\* has no CREATE TABLE)
CreateTable ==
    /\ cfg.storage = "sqlite"
    /\ disk.sqlite.kind = "notable"
    /\ disk' = [disk EXCEPT !.sqlite.kind = "table"]
    /\ last' = NoCall
    /\ UNCHANGED <<cfg, clock, hist, procs>>

\* the connection a failed save left open is collected (or its process
\* ends) and its write lock is released
ReleaseLock ==
    /\ cfg.storage = "sqlite"
    /\ disk.sqlite.locked
    /\ disk' = [disk EXCEPT !.sqlite.locked = FALSE]
    /\ last' = NoCall
    /\ UNCHANGED <<cfg, clock, hist, procs>>

Next ==
    \/ Enroll
    \/ VerifyCall
    \/ GateAttempt
    \/ ListUsers
    \/ DeleteUser
    \/ Tick
    \/ CorruptJson
    \/ InstallLegacy
    \/ CreateTable
    \/ ReleaseLock

Spec == Init /\ [][Next]_vars

-----------------------------------------------------------------------------
(* Calls running side by side                                              *)
(*                                                                         *)
(* Each process is inside one call; a step is what the call does up to     *)
(* and including its next access to the backing store, or its wait at      *)
(* input(). The module takes no lock and opens the store anew at every     *)
(* load and save, so the steps of two processes interleave freely.         *)

\* the waveform captured in these calls
ProcWav == "wA"

\* no process is inside a call
AllIdle == \A p \in Procs : procs.run[p].pc = "idle"

\* every call that was started has returned
Quiescent == \A p \in Procs : procs.run[p].pc \in {"idle", "done"}

\* the processes, with process p now in state ps; base is the store as it
\* was when the first of the calls running side by side began
WithProc(p, ps) ==
    [base |-> IF AllIdle THEN disk ELSE procs.base,
     run |-> [procs.run EXCEPT ![p] = ps]]

\* where a call of op begins
FirstPc(c, op) ==
    IF op = "gate" THEN (IF c.liveness THEN "challenge" ELSE "verify")
    ELSE "load"

\* the return of a gate attempt
ProcDone(ps, matched, guard, outcome, exc) ==
    [ps EXCEPT !.pc = "done", !.matched = matched, !.guard = guard,
               !.outcome = outcome, !.exc = exc]

\* The next step of a gate attempt after the liveness exchange:
\*   "verify"  _record and verify up to the call of _check_replay;
\*   "guard"   _check_replay from its load to its decision;
\*   "record"  _check_replay writing last_used (db[user_id]["last_used"] =
\*             now; _save_db(db)) and the return into func.
attempt_step(c, d, ps, clk) ==
    IF ps.pc = "verify"
    THEN LET v == verify(c, d, ProcWav, ps.user, clk)
         IN  IF v.matched /\ NameDefined("time")
             THEN [ps |-> [ps EXCEPT !.pc = "guard", !.matched = TRUE,
                                     !.time = clk],
                   disk |-> d]
             ELSE [ps |-> ProcDone([ps EXCEPT !.time = clk], v.matched,
                                   "NotConsulted", "Denied", v.exc),
                   disk |-> d]
    ELSE IF ps.pc = "guard"
    THEN LET ld == load_db(c, d)
         IN  IF \/ ~c.antiReplay
                \/ ld.exc # "none"
                \/ ps.user \notin DOMAIN ld.db
                \/ ld.db[ps.user].t # "dict"
             THEN [ps |-> ProcDone(ps, TRUE, "Allowed", "Granted", "none"),
                   disk |-> d]
             ELSE IF clk - ld.db[ps.user].last_used < REPLAY_AGE
             THEN [ps |-> ProcDone(ps, TRUE, "Blocked", "Denied", "none"),
                   disk |-> d]
             ELSE [ps |-> [ps EXCEPT !.pc = "record", !.db = ld.db,
                                     !.time = clk],
                   disk |-> d]
    ELSE LET e == ps.db[ps.user]
             sv == save_db(c, d,
                     DictSet(ps.db, ps.user,
                         DictEntry(e.embed, e.enrolled, ps.time)))
         IN  [ps |-> ProcDone(ps, TRUE, "Allowed", "Granted", "none"),
              disk |-> sv.disk]

\* process p calls enroll, delete_user or a gated function
Call(p) ==
    \E op \in {"enroll", "delete", "gate"}, u \in Users :
        /\ procs.run[p].pc = "idle"
        /\ procs' = WithProc(p, [IdleProc EXCEPT !.pc = FirstPc(cfg, op),
                                                 !.op = op, !.user = u])
        /\ UNCHANGED <<cfg, disk, clock, hist, last>>

\* the human presses Enter at input("Press Enter after speaking...")
Respond(p) ==
    /\ procs.run[p].pc = "challenge"
    /\ procs' = WithProc(p, [procs.run[p] EXCEPT !.pc = "verify"])
    /\ UNCHANGED <<cfg, disk, clock, hist, last>>

\* the gate attempt of process p takes its next step
Attempt(p) ==
    /\ procs.run[p].op = "gate"
    /\ procs.run[p].pc \in {"verify", "guard", "record"}
    /\ LET r == attempt_step(cfg, disk, procs.run[p], clock)
       IN  /\ procs' = WithProc(p, r.ps)
           /\ disk' = r.disk
    /\ UNCHANGED <<cfg, clock, hist, last>>

\* enroll up to its load: _record, get_embedding, the timestamp, the load
\* and the assignment db[user_id] = {...} in memory
EnrollLoad(p) ==
    /\ procs.run[p].op = "enroll"
    /\ procs.run[p].pc = "load"
    /\ LET ps == procs.run[p]
           ld == load_db(cfg, disk)
       IN  procs' = WithProc(p,
             IF ld.exc # "none"
             THEN [ps EXCEPT !.pc = "done", !.time = clock, !.exc = ld.exc]
             ELSE [ps EXCEPT !.pc = "save", !.time = clock,
                             !.db = DictSet(ld.db, ps.user,
                                      DictEntry(get_embedding(ProcWav),
                                                clock, NeverUsed))])
    /\ UNCHANGED <<cfg, disk, clock, hist, last>>

\* delete_user up to its load and the test "if user_id in db"
DeleteLoad(p) ==
    /\ procs.run[p].op = "delete"
    /\ procs.run[p].pc = "load"
    /\ LET ps == procs.run[p]
           ld == load_db(cfg, disk)
       IN  procs' = WithProc(p,
             IF ld.exc # "none"
             THEN [ps EXCEPT !.pc = "done", !.exc = ld.exc]
             ELSE IF ps.user \notin DOMAIN ld.db
             THEN [ps EXCEPT !.pc = "done"]
             ELSE [ps EXCEPT !.pc = "save",
                             !.db = DictDel(ld.db, ps.user)])
    /\ UNCHANGED <<cfg, disk, clock, hist, last>>

\* _save_db(db) of enroll or delete_user: the dict the process holds
\* replaces the store
Save(p) ==
    /\ procs.run[p].pc = "save"
    /\ LET sv == save_db(cfg, disk, procs.run[p].db)
       IN  /\ disk' = sv.disk
           /\ procs' = WithProc(p, [procs.run[p] EXCEPT !.pc = "done",
                                                        !.exc = sv.exc])
    /\ UNCHANGED <<cfg, clock, hist, last>>

\* the calls have returned and the processes are ready for the next ones
Quiesce ==
    /\ Quiescent
    /\ ~AllIdle
    /\ procs' = [base |-> disk, run |-> [p \in Procs |-> IdleProc]]
    /\ UNCHANGED <<cfg, disk, clock, hist, last>>

\* the users table is created while no call is running
\* time passes while calls are running
ProcTick == Tick

ProcCreateTable == AllIdle /\ CreateTable

\* a lock left by a failed save is released while no call is running
ProcReleaseLock == AllIdle /\ ReleaseLock

\* what process p does by itself: every step but the human's response
ProgramStep(p) ==
    \/ Attempt(p)
    \/ EnrollLoad(p)
    \/ DeleteLoad(p)
    \/ Save(p)

NextProc ==
    \/ \E p \in Procs : Call(p)
    \/ \E p \in Procs : Respond(p)
    \/ \E p \in Procs : ProgramStep(p)
    \/ Quiesce
    \/ ProcTick
    \/ ProcCreateTable
    \/ ProcReleaseLock

SpecProc == Init /\ [][NextProc]_vars

-----------------------------------------------------------------------------
(* Properties                                                              *)

\* the last call was an authentication attempt through the gate
GateCall == last.op = "gate"

\* the liveness stage of the last call passed: disabled, or the response
\* matched the phrase
LivenessPassed == last.challenged => last.respOK

\* C1: in a gate attempt the protected action is invoked only if, in that
\* attempt, liveness passed, capture and embedding succeeded, the verifier
\* matched the requested identity and the anti-replay guard answered
\* Allowed; an attempt that ends Denied never invokes the action.
C1_ActionOnlyWhenAllPassed ==
    GateCall =>
        /\ last.actionCalls > 0 =>
               /\ LivenessPassed
               /\ last.captured
               /\ last.embedded
               /\ last.known
               /\ last.matched
               /\ last.guard = "Allowed"
        /\ last.outcome = "Denied" => last.actionCalls = 0

\* C1 witness: an attempt whose voice passed the threshold ended Denied
\* without the action being invoked
C1_Witness ==
    /\ GateCall
    /\ last.matched
    /\ last.outcome = "Denied"
    /\ last.actionCalls = 0

\* the last call was a gate attempt in which every stage had what it needs
\* to pass: liveness passed, a waveform and a voiceprint were obtained, the
\* identity is enrolled with a similarity above the threshold, and the
\* guard has nothing to block (anti-replay disabled, or the identity has
\* not authenticated since it was enrolled)
AllStagesPass ==
    /\ GateCall
    /\ LivenessPassed
    /\ last.captured
    /\ last.embedded
    /\ last.known
    /\ last.simCls = "above"
    /\ \/ ~cfg.antiReplay
       \/ last.priorExact /\ last.prior = <<>>

\* C2: a gate attempt in which every stage passes ends Granted: the
\* protected action is invoked exactly once and its result is returned.
C2_AllPassGranted ==
    AllStagesPass =>
        /\ last.outcome = "Granted"
        /\ last.actionCalls = 1
        /\ last.ret = ActionResult

\* the last call ran verify, directly or through the gate
VerifyRan == last.op \in {"gate", "verify"} /\ last.embedCalled

\* C3: verify passes the threshold test only when the similarity is
\* strictly above the threshold; a similarity equal to it is a non-match.
C3_StrictThreshold == VerifyRan /\ last.matched => last.simCls = "above"

RECURSIVE ApprovedUpTo(_, _)
\* the time of the last of the first n attempts that the guard of the
\* specification approves, the first of them being approved
ApprovedUpTo(times, n) ==
    IF n = 1 THEN times[1]
    ELSE LET a == ApprovedUpTo(times, n - 1)
         IN  IF times[n] - a >= REPLAY_AGE THEN times[n] ELSE a

\* what the guard is to answer at time now to an identity whose earlier
\* matching attempts since enrollment were at times
ExpectedGuard(times, now) ==
    IF times = <<>> THEN "Allowed"
    ELSE IF now - ApprovedUpTo(times, Len(times)) < REPLAY_AGE
    THEN "Blocked"
    ELSE "Allowed"

\* C4: with anti-replay enabled, a matching attempt is Blocked when it comes
\* less than REPLAY_AGE seconds after the identity's last guard-approved
\* attempt and Allowed when it comes REPLAY_AGE seconds or more after it;
\* the first matching attempt after enrollment is Allowed.
C4_ReplayWindow ==
    /\ GateCall
    /\ cfg.antiReplay
    /\ last.simCls = "above"
    /\ last.priorExact
    => last.guard = ExpectedGuard(last.prior, last.time)

\* C5: a Blocked outcome does not move the window. Of three matching
\* attempts at t1, t2 < t1 + REPLAY_AGE and t3 >= t1 + REPLAY_AGE, the third
\* is Allowed even though t3 < t2 + REPLAY_AGE: the window runs from the
\* first attempt, not from the blocked one.
C5_BlockedKeepsWindow ==
    /\ GateCall
    /\ cfg.antiReplay
    /\ last.simCls = "above"
    /\ last.priorExact
    /\ Len(last.prior) = 2
    /\ last.prior[2] - last.prior[1] < REPLAY_AGE
    /\ last.time - last.prior[1] >= REPLAY_AGE
    /\ last.time - last.prior[2] < REPLAY_AGE
    => last.guard = "Allowed"

\* C6: with liveness enabled, a response that does not match the phrase
\* ends the attempt Denied before the capture: no capture, no embedding, no
\* store access, no guard, no action.
C6_LivenessShortCircuit ==
    GateCall /\ last.challenged /\ ~last.respOK =>
        /\ ~last.captureCalled
        /\ ~last.embedCalled
        /\ ~last.storeRead
        /\ last.guard = "NotConsulted"
        /\ last.actionCalls = 0
        /\ last.outcome = "Denied"

\* C7: verify answers a stored and a candidate voiceprint of different
\* dimensionality with a denial returned as a value; it never raises.
C7_DimensionMismatchDenied ==
    last.op = "verify" /\ last.simCls = "dimdiff" =>
        /\ last.exc = "none"
        /\ last.ret = "False"

\* an error kind of the taxonomy arose in the last gate attempt
ErrorArose ==
    \/ last.challenged /\ ~last.respOK
    \/ ~last.captured
    \/ ~last.embedded
    \/ last.unreadable
    \/ ~last.known
    \/ last.simCls \in {"dimdiff", "nan", "below", "tie"}
    \/ last.guard = "Blocked"
    \/ last.caught # "none"
    \/ last.exc # "none"

\* C8: every error arising in a gate attempt ends it Denied with the
\* protected action skipped, and no exception leaves the gate.
C8_ErrorsDenied ==
    GateCall /\ ErrorArose =>
        /\ last.outcome = "Denied"
        /\ last.actionCalls = 0
        /\ last.exc = "none"

\* C8 witness: an exception raised inside the attempt was caught by the
\* gate, which ended Denied
C8_Witness ==
    /\ GateCall
    /\ last.caught # "none"
    /\ last.outcome = "Denied"
    /\ last.exc = "none"

\* C9: a call that reads a malformed or unreadable store reports a storage
\* error (it raises, or catches and reports one) instead of going on as if
\* the store were empty, and does not rewrite the store.
C9_UnreadableStoreFails ==
    last.unreadable /\ last.storeRead =>
        /\ last.exc # "none" \/ last.caught # "none"
        /\ ~last.wrote

\* the stored record of the last call's identity is the one an enrollment
\* at the time of the call writes
FreshRecord ==
    /\ last.user \in Enrolled(cfg, disk)
    /\ Records(cfg, disk)[last.user].enrolled = last.time
    /\ cfg.storage = "json" =>
           Records(cfg, disk)[last.user].last_used = NeverUsed

\* C10: an enroll on a readable store creates or replaces the identity's
\* record with enrolled_at = now and last_authenticated_at = none and
\* leaves every other record unchanged, so that the first matching attempt
\* after it is Allowed by the guard.
C10_EnrollResets ==
    /\ (/\ last.op = "enroll"
        /\ last.captured
        /\ last.embedded
        /\ ~last.unreadable)
       => /\ last.wrote
          /\ FreshRecord
          /\ last.changed \subseteq {last.user}
    /\ (/\ GateCall
        /\ last.simCls = "above"
        /\ last.priorExact
        /\ last.prior = <<>>)
       => last.guard = "Allowed"

\* C11: delete_user returns true exactly when a record of the identity
\* existed and was removed, after which list_users no longer shows the
\* identity and the other records are unchanged; deleting an identity that
\* is not enrolled returns false, leaves the store as it was and raises
\* nothing.
C11_DeleteReports ==
    last.op = "delete" /\ ~last.unreadable =>
        /\ last.ret = "True" <=> last.known /\ last.wrote
        /\ last.known /\ last.wrote =>
               /\ last.user \notin list_users(cfg, disk).rec.listed
               /\ last.changed = {last.user}
        /\ ~last.known =>
               /\ last.ret = "False"
               /\ last.changed = {}
               /\ last.exc = "none"

\* the store that the call process p made leaves when it runs alone, from
\* its first statement to its return, on the store d
RunAlone(p, d) ==
    LET ps == procs.run[p]
    IN  IF ps.op = "enroll"
        THEN enroll(cfg, d, ps.user, ProcWav, ps.time).disk
        ELSE IF ps.op = "delete" THEN delete_user(cfg, d, ps.user).disk
        ELSE IF ps.op = "gate"
        THEN wrapper(cfg, d, ps.user,
                     [challenged |-> cfg.liveness, respOK |-> TRUE],
                     ProcWav, ps.time).disk
        ELSE d

\* the stores the calls of the two processes leave when they run one after
\* the other, in either order, from the store they began on
SerialStores ==
    {RunAlone("p2", RunAlone("p1", procs.base)),
     RunAlone("p1", RunAlone("p2", procs.base))}

\* C12: writes to the store are serialized and no update is lost. When the
\* calls that ran side by side (enroll, delete_user, gate attempts) have
\* all returned, the store is the one that running them one after the other
\* in some order leaves.
C12_SerialEquivalent == Quiescent /\ ~AllIdle => disk \in SerialStores

\* a failed liveness stage is followed by no other stage
LivenessFailFast ==
    last.challenged /\ ~last.respOK =>
        /\ ~last.captureCalled
        /\ ~last.embedCalled
        /\ ~last.storeRead
        /\ last.guard = "NotConsulted"
        /\ last.actionCalls = 0

\* from the capture on, a stage runs only if the one before it passed
LaterStagesFailFast ==
    /\ last.embedCalled => last.captureCalled /\ last.captured
    /\ last.storeRead => last.embedCalled /\ last.embedded
    /\ last.guard # "NotConsulted" =>
           last.storeRead /\ last.known /\ last.matched
    /\ last.actionCalls > 0 => last.guard = "Allowed"

\* C13: the stages of a gate attempt run in the order liveness, capture,
\* embedding, verifier, anti-replay guard, action, and once a stage fails
\* no later stage runs: a failed liveness response means no capture, a
\* failed capture no embedding and no store access, a failed embedding or
\* a non-match no guard, a Blocked guard no action.
C13_FailFast == GateCall => LivenessFailFast /\ LaterStagesFailFast

\* both processes have returned from a gate attempt for the same identity;
\* both attempts passed the threshold, with anti-replay enabled, at times
\* less than REPLAY_AGE apart
TwoMatchingAttempts ==
    LET a == procs.run["p1"]
        b == procs.run["p2"]
    IN  /\ cfg.antiReplay
        /\ a.op = "gate" /\ a.pc = "done" /\ a.matched
        /\ b.op = "gate" /\ b.pc = "done" /\ b.matched
        /\ a.user = b.user
        /\ a.time - b.time < REPLAY_AGE
        /\ b.time - a.time < REPLAY_AGE

C15_DegenerateDenied ==
    VerifyRan /\ last.simCls = "nan" =>
        /\ ~last.matched
        /\ last.exc = "none"
        /\ last.caught = "none"
        /\ last.op = "verify" => last.ret = "False"
        /\ last.actionCalls = 0

\* the store d2 is the store d1 with last_used of user_id set to t and
\* nothing else changed
TouchedOnly(d1, d2, user_id, t) ==
    /\ cfg.storage = "json"
    /\ user_id \in DOMAIN d1.json.db
    /\ d2 = [d1 EXCEPT !.json.db[user_id].last_used = t]

\* C16: a gate attempt that ends Denied leaves the store as it was, and the
\* only change an attempt ever makes to the store is to set last_used of
\* the requested identity to the time of an attempt the guard Allowed; a
\* failed voice match never moves the replay window.
C16_DeniedLeavesStore ==
    [][last'.op = "gate" =>
          /\ last'.outcome = "Denied" => disk' = disk
          /\ disk' # disk =>
                 /\ last'.guard = "Allowed"
                 /\ TouchedOnly(disk, disk', last'.user, last'.time)]_vars

\* C16 witness: an attempt for an enrolled identity whose voice was below
\* the threshold ended Denied
C16_Witness ==
    /\ GateCall
    /\ last.outcome = "Denied"
    /\ last.known
    /\ last.simCls = "below"
    /\ last.user \in Enrolled(cfg, disk)

\* C17: with anti-replay disabled the guard always answers Allowed and
\* neither reads nor writes the store: every gate attempt in which the
\* other stages pass is Granted, however soon after the one before, and
\* no record changes.
C17_DisabledGuardAllows ==
    /\ GateCall
    /\ ~cfg.antiReplay
    /\ LivenessPassed
    /\ last.simCls = "above"
    => /\ last.guard = "Allowed"
       /\ last.outcome = "Granted"
       /\ last.actionCalls = 1
       /\ last.changed = {}

\* C18: every gate attempt ends Granted or Denied by itself. An attempt
\* that has not returned can always take a step of its own, so with
\* liveness enabled and no response from the human it times out rather
\* than stay at the challenge for ever.
C18_AttemptGoesOnAlone ==
    \A p \in Procs :
        procs.run[p].op = "gate" /\ procs.run[p].pc # "done" =>
            ENABLED ProgramStep(p)

\* the configuration with the JSON backend selected
JsonConfig == [cfg EXCEPT !.storage = "json"]

\* the JSON document holding the records the SQLite table holds
JsonTwin ==
    [disk EXCEPT !.json =
        [kind |-> "doc",
         db |-> [u \in DOMAIN disk.sqlite.rows |->
                    DictEntry(disk.sqlite.rows[u].embedding,
                              disk.sqlite.rows[u].enrolled, NeverUsed)]]]

\* enroll, list_users, delete_user and verify give the same outcome on the
\* SQLite store as on the JSON store with the same records
SameOutcomes(u, wav) ==
    LET ea == enroll(cfg, disk, u, wav, clock)
        eb == enroll(JsonConfig, JsonTwin, u, wav, clock)
        da == delete_user(cfg, disk, u)
        db == delete_user(JsonConfig, JsonTwin, u)
        va == verify(cfg, disk, wav, u, clock)
        vb == verify(JsonConfig, JsonTwin, wav, u, clock)
    IN  /\ list_users(cfg, disk).rec.listed
               = list_users(JsonConfig, JsonTwin).rec.listed
        /\ ea.rec.exc = eb.rec.exc
        /\ Enrolled(cfg, ea.disk) = Enrolled(JsonConfig, eb.disk)
        /\ da.rec.caught = db.rec.caught
        /\ Enrolled(cfg, da.disk) = Enrolled(JsonConfig, db.disk)
        /\ va.ret = vb.ret /\ va.exc = vb.exc
        /\ va.matched = vb.matched /\ va.guard = vb.guard

\* C19: the JSON and the SQLite backend are interchangeable. Whenever the
\* SQLite store is usable, each operation (enroll, list, delete, verify)
\* has on it the outcome it has on a JSON store holding the same records:
\* same identities listed and enrolled, same decision, same errors.
C19_BackendsAgree ==
    /\ cfg.storage = "sqlite"
    /\ disk.sqlite.kind = "table"
    /\ ~disk.sqlite.locked
    => \A u \in Users, wav \in Waveforms : SameOutcomes(u, wav)

\* asked about an identity that is not in the store, _check_replay answers
\* True and leaves the store as it was
GuardAllowsAbsent ==
    \A u \in Users \ Enrolled(cfg, disk) :
        check_replay(cfg, disk, u, clock) = [ret |-> TRUE, disk |-> disk]

\* how the call that has just returned moved the set of enrolled
\* identities: an attempt or a listing not at all, an enroll that captured,
\* embedded and returned by adding its identity, one whose capture or
\* embedding failed by leaving the whole store alone, a delete_user that
\* did not fail by removing its identity
IdentitiesFollowCall ==
    LET before == Enrolled(cfg, disk)
        after == Enrolled(cfg, disk')
        r == last'
    IN  /\ r.op \in {"gate", "verify", "list"} => after = before
        /\ r.op = "enroll" =>
               IF r.captured /\ r.embedded /\ r.exc = "none"
               THEN after = before \cup {r.user}
               ELSE after = before
        /\ r.op = "enroll" /\ ~(r.captured /\ r.embedded) => disk' = disk
        /\ r.op = "delete" =>
               IF r.caught = "none" THEN after = before \ {r.user}
               ELSE after = before

\* one call after the other, the enrolled set follows the calls and the
\* guard leaves absent identities alone
IdentitiesFollowCallsInTurn ==
    [][IdentitiesFollowCall /\ GuardAllowsAbsent /\ GuardAllowsAbsent']_vars

\* the set of identities E after the call of process p: an enroll that
\* returned adds its identity, a delete_user that did not fail removes it,
\* an attempt changes nothing
EnrolledAfter(p, E) ==
    LET ps == procs.run[p]
    IN  IF ps.pc # "done" \/ ps.exc # "none" THEN E
        ELSE IF ps.op = "enroll" THEN E \cup {ps.user}
        ELSE IF ps.op = "delete" THEN E \ {ps.user}
        ELSE E

\* the identities enrolled and not since deleted, the calls of the two
\* processes taken in either order
EnrolledNotDeleted ==
    LET E0 == Enrolled(cfg, procs.base)
    IN  {EnrolledAfter("p2", EnrolledAfter("p1", E0)),
         EnrolledAfter("p1", EnrolledAfter("p2", E0))}

\* C20: an authentication attempt never adds or removes an identity, and
\* in every reachable state the enrolled identities are exactly those
\* enrolled and not since deleted: when the calls made have returned, the
\* store holds the identities it held before them, plus those enrolled,
\* minus those deleted.
C20_EnrolledAreThoseEnrolled ==
    Quiescent /\ ~AllIdle => Enrolled(cfg, disk) \in EnrolledNotDeleted

=============================================================================
